---- MODULE Spec2Model ----
(***************************************************************************)
(* A model of rag.py: the ingest pipeline init_rag (load_file ->           *)
(* load_embedding_model -> encode_docs -> save_vectors_to_db) and the      *)
(* query pipeline rag_search / search, together with the three external    *)
(* collaborators the code drives: the recursive character text splitter,   *)
(* the sentence encoder and the Milvus collection "pdfs".                  *)
(*                                                                         *)
(* A text is a sequence of one-character strings.  The collaborators are   *)
(* modelled by the behaviour the call sites in rag.py rely on:             *)
(*  - the splitter by its published algorithm (keep_separator, strip       *)
(*    whitespace, len as length function), with the program's chunk size   *)
(*    384 and overlap 115; its per-element loops are written as searches   *)
(*    for the next element at which the loop changes course, so that the   *)
(*    evaluation depth is the number of chunks and not of characters;      *)
(*  - the encoder by a fixed deterministic function from texts to          *)
(*    integer vectors, and F.normalize by the reduction of a vector to     *)
(*    the canonical representative of its direction;                       *)
(*  - the collection by a set of records with automatic identifiers, a     *)
(*    set of identifiers visible to searches (consistency level            *)
(*    "Eventually") and an exact nearest-neighbour search.                 *)
(* Every call to a collaborator that can raise does so by                  *)
(* nondeterministic choice; rag.py has no try/except, so an exception      *)
(* ends the call.                                                          *)
(***************************************************************************)
EXTENDS Integers, Sequences, FiniteSets, TLC

\* ------------------------------------------------------------- bounds
\* Calls (init_rag or rag_search) made in one behaviour.
MaxCalls == 3
\* Blocks (a word followed by a separator) in a page text given to the
\* splitter in the specification SpecChunk.
MaxBlocks == 2

\* ---------------------------------------------------------- constants
COLLECTION_NAME == "pdfs"
CHUNK_SIZE == 384
chunk_overlap == (CHUNK_SIZE * 3) \div 10
\* A faulty variant of chunk_size: the splitter is given the chunk size plus
\* the overlap.
chunk_size_plus_overlap == CHUNK_SIZE + chunk_overlap
\* the chunk_size the splitter is constructed with
chunk_size == CHUNK_SIZE
NL == "\n"
separators == << <<NL, NL>>, <<NL>>, <<".", " ">>, <<",", " ">>, <<" ">>, <<>> >>
DEFAULT_TOP_K == 5

\* ------------------------------------------------------------- texts
Rep(c, n) == [i \in 1..n |-> c]
Min(S) == CHOOSE x \in S : \A y \in S : x <= y
Max(S) == CHOOSE x \in S : \A y \in S : x >= y
Count(text, c) == Cardinality({i \in 1..Len(text) : text[i] = c})
IsWs(c) == c = " " \/ c = NL

\* sep occurs in text at position i
MatchAt(text, sep, i) ==
    /\ i + Len(sep) - 1 <= Len(text)
    /\ \A k \in 1..Len(sep) : text[i + k - 1] = sep[k]

\* re.search(re.escape(sep), text); the empty string occurs in every text
Occurs(text, sep) == sep = <<>> \/ \E i \in 1..Len(text) : MatchAt(text, sep, i)

\* str.strip(): leading and trailing whitespace removed
strip(t) ==
    LET keep == {i \in 1..Len(t) : ~IsWs(t[i])}
    IN IF keep = {} THEN <<>> ELSE SubSeq(t, Min(keep), Max(keep))

\* "".join(ss[lo..hi])
RECURSIVE Join(_, _, _)
Join(ss, lo, hi) ==
    IF lo > hi THEN <<>>
    ELSE IF lo = hi THEN ss[lo]
    ELSE LET mid == (lo + hi) \div 2 IN Join(ss, lo, mid) \o Join(ss, mid + 1, hi)

\* running totals base + len(ss[lo]) + ... + len(ss[k]) for k in lo..hi
RECURSIVE Prefix(_, _, _, _)
Prefix(ss, lo, hi, base) ==
    IF lo > hi THEN <<>>
    ELSE IF lo = hi THEN <<base + Len(ss[lo])>>
    ELSE LET mid == (lo + hi) \div 2
             left == Prefix(ss, lo, mid, base)
         IN left \o Prefix(ss, mid + 1, hi, left[Len(left)])

\* ---------------------------------------------------------- splitter
\* The starts of the leftmost non-overlapping occurrences of sep from `from` on
\* (the matches re.split finds).
RECURSIVE MatchStarts(_, _, _)
MatchStarts(text, sep, from) ==
    LET hits == {i \in from..Len(text) : MatchAt(text, sep, i)}
    IN IF hits = {} THEN <<>>
       ELSE LET i == Min(hits) IN <<i>> \o MatchStarts(text, sep, i + Len(sep))

\* _split_text_with_regex(text, separator, keep_separator=True): each separator
\* stays at the front of the piece that follows it; empty pieces are dropped.
\* The empty separator splits the text into its characters.
split_text_with_regex(text, sep) ==
    LET raw ==
          IF sep # <<>> THEN
             LET ms == MatchStarts(text, sep, 1)
                 n == Len(ms)
                 first == IF n = 0 THEN text ELSE SubSeq(text, 1, ms[1] - 1)
                 rest == [k \in 1..n |->
                            SubSeq(text, ms[k], IF k < n THEN ms[k + 1] - 1 ELSE Len(text))]
             IN <<first>> \o rest
          ELSE [i \in 1..Len(text) |-> <<text[i]>>]
    IN SelectSeq(raw, LAMBDA s : s # <<>>)

\* _join_docs(docs, "") with strip_whitespace: None (no chunk) when blank
AddDoc(docs, pieces, lo, hi) ==
    LET doc == strip(Join(pieces, lo, hi))
    IN IF doc # <<>> THEN Append(docs, doc) ELSE docs

\* The for loop of _merge_splits from piece i on, current_doc being the pieces
\* a..i-1 and P the running totals of the piece lengths.  j is the first piece
\* that does not fit: current_doc is emitted, then pieces are popped from its
\* front while the total exceeds chunk_overlap, or the total plus piece j
\* still exceeds the chunk size.
RECURSIVE MergeFrom(_, _, _, _, _)
MergeFrom(splits, P, a, i, docs) ==
    LET n == Len(splits)
        Tot(x, y) == P[y] - P[x - 1]
        over == {j \in i..n : a <= j - 1 /\ Tot(a, j - 1) + Len(splits[j]) > chunk_size}
    IN IF over = {} THEN AddDoc(docs, splits, a, n)
       ELSE
          LET j == Min(over)
              a2 == Min({b \in a..j :
                      ~(\/ Tot(b, j - 1) > chunk_overlap
                        \/ (Tot(b, j - 1) + Len(splits[j]) > chunk_size /\ Tot(b, j - 1) > 0))})
          IN MergeFrom(splits, P, a2, j + 1, AddDoc(docs, splits, a, j - 1))

\* _merge_splits(splits, separator="")
merge_splits(splits) ==
    LET pre == Prefix(splits, 1, Len(splits), 0)
        P == [k \in 0..Len(splits) |-> IF k = 0 THEN 0 ELSE pre[k]]
    IN MergeFrom(splits, P, 1, 1, <<>>)

\* The separator _split_text picks: the first of seps that occurs in text
\* (the empty one always does), else the last.
RECURSIVE FirstSep(_, _, _)
FirstSep(text, seps, i) ==
    IF i > Len(seps) THEN Len(seps)
    ELSE IF Occurs(text, seps[i]) THEN i
    ELSE FirstSep(text, seps, i + 1)

\* A piece is kept for merging when it is shorter than the chunk size.
IsGoodSplit(s) == Len(s) < chunk_size

\* _split_text(text, separators): the pieces shorter than the chunk size are
\* merged; a longer piece is split again by the separators that remain, or kept
\* whole when none remains.  SplitFrom is its for loop from piece i on.
RECURSIVE split_text(_, _)
RECURSIVE SplitFrom(_, _, _, _)
SplitFrom(splits, newseps, i, final) ==
    LET n == Len(splits)
        big == {j \in i..n : ~IsGoodSplit(splits[j])}
        Flush(f, lo, hi) == IF lo <= hi THEN f \o merge_splits(SubSeq(splits, lo, hi)) ELSE f
    IN IF big = {} THEN Flush(final, i, n)
       ELSE LET j == Min(big)
                s == splits[j]
                f1 == Flush(final, i, j - 1)
                f2 == IF newseps = <<>> THEN Append(f1, s) ELSE f1 \o split_text(s, newseps)
            IN SplitFrom(splits, newseps, j + 1, f2)

split_text(text, seps) ==
    LET i == FirstSep(text, seps, 1)
        sep == seps[i]
        newseps == IF sep = <<>> THEN <<>> ELSE SubSeq(seps, i + 1, Len(seps))
    IN SplitFrom(split_text_with_regex(text, sep), newseps, 1, <<>>)

\* split_documents(docs): every page is split on its own and each chunk
\* inherits the metadata of its page; chunks follow page order.
RECURSIVE split_documents(_)
split_documents(ds) ==
    IF ds = <<>> THEN <<>>
    ELSE LET d == Head(ds)
             texts == split_text(d.page_content, separators)
         IN [i \in 1..Len(texts) |->
                [page_content |-> texts[i], source |-> d.source, page |-> d.page]]
            \o split_documents(Tail(ds))

\* ------------------------------------------------------- environment
\* The files the caller can name.  "/nonexistent.pdf" is no file; "corrupt.pdf"
\* is a file PyPDFLoader cannot parse; "blank.pdf" has one page without text;
\* the two pages of "twin.pdf" carry the same text; the first page of "a.pdf"
\* is longer than one chunk.
ExistingPaths == {"a.pdf", "twin.pdf", "blank.pdf", "corrupt.pdf"}
Paths == ExistingPaths \cup {"/nonexistent.pdf"}
CorruptPaths == {"corrupt.pdf"}
PageTexts(path) ==
    CASE path = "a.pdf" ->
           << Rep("a", 200) \o <<".", " ">> \o Rep("b", 200), <<"b", " ", "a">> >>
      [] path = "twin.pdf" -> << <<"c", " ", "c">>, <<"c", " ", "c">> >>
      [] OTHER -> << <<>> >>

\* PyPDFLoader(pdf_path).load(): one document per page, in page order
PdfLoad(path) ==
    LET ts == PageTexts(path)
    IN [i \in 1..Len(ts) |-> [page_content |-> ts[i], source |-> path, page |-> i - 1]]

\* The questions a caller asks: three chunk texts and one other text.
Questions ==
    { <<"c", " ", "c">>, <<"b", " ", "a">>, Rep("a", 200), <<"a", " ", "b", " ", "b">> }
TopKs == {1, 2, 3, DEFAULT_TOP_K}

\* ------------------------------------------------------------ encoder
\* encoder.encode(text): the model's raw output, a deterministic function of
\* the text with a fixed dimension.
RawEncode(text) == << 1 + (Count(text, "a") % 7), 1 + (Count(text, "b") % 7) >>
embedding_dim == Len(RawEncode(<<>>))

RECURSIVE GCD(_, _)
GCD(x, y) == IF y = 0 THEN x ELSE GCD(y, x % y)

\* F.normalize(v, p=2): the unit vector of v's direction, written as the
\* vector of that direction with coprime integer components.
normalize(v) == LET g == GCD(v[1], v[2]) IN << v[1] \div g, v[2] \div g >>

Dot(u, v) == u[1] * v[1] + u[2] * v[2]
\* The inner product of the unit vectors u and v, squared, as a fraction
\* <<numerator, denominator>> in lowest terms; <<1, 1>> for equal directions.
Similarity(u, v) ==
    LET num == Dot(u, v) * Dot(u, v)
        den == Dot(u, u) * Dot(v, v)
        g == GCD(num, den)
    IN << num \div g, den \div g >>
FracGE(f, g) == f[1] * g[2] >= g[1] * f[2]

\* encode_docs, lines 51-54: the texts of the chunks, encoded as one batch and
\* normalized row by row
EncodeAll(cs) == [i \in 1..Len(cs) |-> normalize(RawEncode(cs[i].page_content))]

\* A faulty variant of Zip: the embeddings are attached in the reverse order.
ZipReversed(cs, es) ==
    [i \in 1..(IF Len(cs) <= Len(es) THEN Len(cs) ELSE Len(es)) |->
        [chunk |-> cs[i].page_content, source |-> cs[i].source,
         page |-> cs[i].page, vector |-> es[Len(es) + 1 - i]]]
\* encode_docs, lines 56-64: zip(chunks, embeddings) into dictionaries
Zip(cs, es) ==
    [i \in 1..(IF Len(cs) <= Len(es) THEN Len(cs) ELSE Len(es)) |->
        [chunk |-> cs[i].page_content, source |-> cs[i].source,
         page |-> cs[i].page, vector |-> es[i]]]

\* -------------------------------------------------------------- store
NoCollection == [name |-> COLLECTION_NAME, exists |-> FALSE, dim |-> 0, records |-> {}]
Ids(rs) == {r.id : r \in rs}

\* create_collection(COLLECTION_NAME, dim, auto_id=True, overwrite=True):
\* an existing collection of the name is dropped with its records
\* A faulty variant of CreateCollection: overwrite is ignored and an existing
\* collection keeps its records.
CreateCollectionKeep(c, dim) == [c EXCEPT !.exists = TRUE, !.dim = dim]
CreateCollection(c, dim) ==
    [name |-> COLLECTION_NAME, exists |-> TRUE, dim |-> dim, records |-> {}]

\* the identifier auto_id gives the i-th record of an insert
\* A faulty variant of AutoId: every record of an insert gets the same
\* identifier.
AutoIdSame(base, i) == base + 1
AutoId(base, i) == base + i

\* insert(COLLECTION_NAME, data): every dictionary becomes a record
InsertAll(c, data, base) ==
    [c EXCEPT !.records = @ \cup
        {[id |-> AutoId(base, i), chunk |-> data[i].chunk, source |-> data[i].source,
          page |-> data[i].page, vector |-> data[i].vector] : i \in 1..Len(data)}]

\* One hit of mc.search: the output fields are the keys of dict_list[0]
\* without 'vector'.
Hit(r, q) ==
    [id |-> r.id, distance |-> Similarity(q, r.vector),
     entity |-> [chunk |-> r.chunk, source |-> r.source, page |-> r.page]]

\* The records a search may put next: the nearest of those left.
Best(rs, q) ==
    {r \in rs : \A s \in rs : FracGE(Similarity(q, r.vector), Similarity(q, s.vector))}

\* mc.search(..., limit=k) over the records rs: the k nearest, best first;
\* records equally near come in any order.
RECURSIVE Ranked(_, _, _)
Ranked(rs, q, k) ==
    IF k = 0 \/ rs = {} THEN {<<>>}
    ELSE UNION {{<<Hit(r, q)>> \o t : t \in Ranked(rs \ {r}, q, k - 1)} : r \in Best(rs, q)}

\* -------------------------------------------------------------- state
VARIABLES
    coll,        \* the collection COLLECTION_NAME in db/rag.db
    visible,     \* identifiers of the records searches see
    nextId,      \* last identifier auto_id gave out
    pc,          \* the statement the running call is at, "idle" between calls
    op,          \* the running (or last) call and its arguments
    docs,        \* init_rag: the pages load_file returned
    chunks,      \* encode_docs: the chunks of the splitter
    embeddings,  \* encode_docs: the normalized embeddings
    dict_list,   \* encode_docs: the dictionaries built from chunks and embeddings
    qvec,        \* search: the normalized embedding of the question
    handle,      \* what the last completed init_rag returned: (mc, encoder, dict_list)
    result,      \* how the last call ended
    log,         \* the stages the running (or last) call has entered, in order
    raised,      \* the stage of the running (or last) call that raised, "" if none
    coll0,       \* the collection when the running (or last) call began
    ncalls       \* calls begun

storeVars == <<coll, visible, nextId>>
localVars == <<docs, chunks, embeddings, dict_list, qvec>>
vars == <<coll, visible, nextId, pc, op, docs, chunks, embeddings, dict_list, qvec,
          handle, result, log, raised, coll0, ncalls>>

NoHandle == [valid |-> FALSE, dict_list |-> <<>>]
NoResult == [status |-> "none", type |-> "", stage |-> "", path |-> "",
             hits |-> <<>>, seen |-> {}]
NoOp == [kind |-> "", pdf_path |-> "", question |-> <<>>, top_k |-> 0]

Init ==
    /\ coll = NoCollection /\ visible = {} /\ nextId = 0
    /\ pc = "idle" /\ op = NoOp
    /\ docs = <<>> /\ chunks = <<>> /\ embeddings = <<>> /\ dict_list = <<>> /\ qvec = <<>>
    /\ handle = NoHandle /\ result = NoResult
    /\ log = <<>> /\ raised = "" /\ coll0 = NoCollection /\ ncalls = 0

\* A faulty variant of Raise: the error is swallowed and the stage runs again.
RaiseRetry(type) ==
    /\ pc' = pc
    /\ result' = result

\* An exception leaves the stage that raised it and, there being no handler in
\* init_rag, rag_search or search, the whole call: the caller gets the error.
Raise(type) ==
    /\ pc' = "idle"
    /\ result' = [NoResult EXCEPT !.status = "error", !.type = type, !.stage = pc,
                                  !.path = op.pdf_path]

\* A faulty variant of NextStage: init_rag saves to the store before it has
\* split and encoded the documents.
NextStageSaveFirst(stage) ==
    CASE stage = "load_file" -> "load_embedding_model"
      [] stage = "load_embedding_model" -> "create_collection"
      [] stage = "create_collection" -> "insert"
      [] stage = "encode_question" -> "mc_search"
      [] OTHER -> "idle"

\* The stage that follows a completed stage in init_rag and in search.
NextStage(stage) ==
    CASE stage = "load_file" -> "load_embedding_model"
      [] stage = "load_embedding_model" -> "split_documents"
      [] stage = "split_documents" -> "encode"
      [] stage = "encode" -> "zip"
      [] stage = "zip" -> "create_collection"
      [] stage = "create_collection" -> "insert"
      [] stage = "encode_question" -> "mc_search"
      [] OTHER -> "idle"

Enter == log' = Append(log, pc)

\* ------------------------------------------------------------ actions
\* The caller calls init_rag(pdf_path).
init_rag(pdf_path) ==
    /\ pc = "idle" /\ ncalls < MaxCalls
    /\ pc' = "load_file"
    /\ op' = [NoOp EXCEPT !.kind = "init_rag", !.pdf_path = pdf_path]
    /\ docs' = <<>> /\ chunks' = <<>> /\ embeddings' = <<>> /\ dict_list' = <<>>
    /\ qvec' = <<>>
    /\ result' = NoResult /\ log' = <<>> /\ raised' = "" /\ coll0' = coll
    /\ ncalls' = ncalls + 1
    /\ UNCHANGED <<storeVars, handle>>

\* A faulty variant of load_file: the os.path.exists check is missing and the
\* loader fails on the missing file in its own way.
load_file_unchecked ==
    /\ pc = "load_file" /\ Enter
    /\ IF ~(op.pdf_path \in ExistingPaths) \/ op.pdf_path \in CorruptPaths
       THEN /\ raised' = pc /\ Raise("ParseError") /\ UNCHANGED docs
       ELSE /\ docs' = PdfLoad(op.pdf_path)
            /\ pc' = NextStage(pc)
            /\ UNCHANGED <<raised, result>>
    /\ UNCHANGED <<storeVars, op, chunks, embeddings, dict_list, qvec, handle, coll0, ncalls>>

\* load_file(pdf_path)
load_file ==
    /\ pc = "load_file" /\ Enter
    /\ IF ~(op.pdf_path \in ExistingPaths)
       THEN /\ raised' = pc /\ Raise("FileNotFoundError") /\ UNCHANGED docs
       ELSE IF op.pdf_path \in CorruptPaths
       THEN /\ raised' = pc /\ Raise("ParseError") /\ UNCHANGED docs
       ELSE /\ docs' = PdfLoad(op.pdf_path)
            /\ pc' = NextStage(pc)
            /\ UNCHANGED <<raised, result>>
    /\ UNCHANGED <<storeVars, op, chunks, embeddings, dict_list, qvec, handle, coll0, ncalls>>

\* load_embedding_model(): SentenceTransformer(...) may raise
load_embedding_model ==
    /\ pc = "load_embedding_model" /\ Enter
    /\ \/ /\ raised' = pc /\ Raise("ModelError")
       \/ /\ pc' = NextStage(pc) /\ UNCHANGED <<raised, result>>
    /\ UNCHANGED <<storeVars, op, localVars, handle, coll0, ncalls>>

\* encode_docs, lines 39-49: the splitter and split_documents
encode_docs_split ==
    /\ pc = "split_documents" /\ Enter
    /\ chunks' = split_documents(docs)
    /\ pc' = NextStage(pc)
    /\ UNCHANGED <<storeVars, op, docs, embeddings, dict_list, qvec, handle, result,
                   raised, coll0, ncalls>>

\* encode_docs, lines 51-54: encoder.encode may raise.  With no chunk the
\* encoder returns an array without rows, and F.normalize(..., dim=1) either
\* raises on it or returns it, as the installed library decides.
encode_docs_encode ==
    /\ pc = "encode" /\ Enter
    /\ \/ /\ raised' = pc
          /\ Raise(IF chunks = <<>> THEN "IndexError" ELSE "ModelError")
          /\ UNCHANGED embeddings
       \/ /\ embeddings' = EncodeAll(chunks)
          /\ pc' = NextStage(pc)
          /\ UNCHANGED <<raised, result>>
    /\ UNCHANGED <<storeVars, op, docs, chunks, dict_list, qvec, handle, coll0, ncalls>>

\* encode_docs, lines 56-65
encode_docs_zip ==
    /\ pc = "zip" /\ Enter
    /\ dict_list' = Zip(chunks, embeddings)
    /\ pc' = NextStage(pc)
    /\ UNCHANGED <<storeVars, op, docs, chunks, embeddings, qvec, handle, result,
                   raised, coll0, ncalls>>

\* save_vectors_to_db, lines 68-69: MilvusClient(...) or create_collection may
\* raise before the store has done anything
save_create_collection ==
    /\ pc = "create_collection" /\ Enter
    /\ \/ /\ raised' = pc /\ Raise("ConnectionError")
          /\ UNCHANGED <<coll, visible>>
       \/ /\ coll' = CreateCollection(coll, embedding_dim)
          /\ visible' = {}
          /\ pc' = NextStage(pc)
          /\ UNCHANGED <<raised, result>>
    /\ UNCHANGED <<nextId, op, localVars, handle, coll0, ncalls>>

\* save_vectors_to_db, lines 72-75, and the return of init_rag: insert raises
\* and has inserted nothing, or has inserted every record
save_insert ==
    /\ pc = "insert" /\ Enter
    /\ \/ /\ raised' = pc /\ Raise("MilvusException")
          /\ UNCHANGED <<coll, nextId, handle>>
       \/ /\ coll' = InsertAll(coll, dict_list, nextId)
          /\ nextId' = nextId + Len(dict_list)
          /\ handle' = [valid |-> TRUE, dict_list |-> dict_list]
          /\ result' = [NoResult EXCEPT !.status = "ok"]
          /\ pc' = NextStage(pc)
          /\ UNCHANGED raised
    /\ UNCHANGED <<visible, op, localVars, coll0, ncalls>>

\* The caller calls rag_search(mc, encoder, dict_list, question, top_k) with
\* what init_rag returned.
rag_search(question, top_k) ==
    /\ pc = "idle" /\ ncalls < MaxCalls /\ handle.valid
    /\ pc' = "encode_question"
    /\ op' = [NoOp EXCEPT !.kind = "rag_search", !.question = question, !.top_k = top_k]
    /\ docs' = <<>> /\ chunks' = <<>> /\ embeddings' = <<>> /\ dict_list' = <<>>
    /\ qvec' = <<>>
    /\ result' = NoResult /\ log' = <<>> /\ raised' = "" /\ coll0' = coll
    /\ ncalls' = ncalls + 1
    /\ UNCHANGED <<storeVars, handle>>

\* A faulty variant of search_encode: the first chunk of dict_list is embedded
\* instead of the question.
search_encode_first_chunk ==
    /\ pc = "encode_question" /\ Enter
    /\ \/ /\ raised' = pc /\ Raise("ModelError") /\ UNCHANGED qvec
       \/ IF handle.dict_list = <<>>
          THEN /\ raised' = pc /\ Raise("IndexError") /\ UNCHANGED qvec
          ELSE /\ qvec' = normalize(RawEncode(handle.dict_list[1].chunk))
               /\ pc' = NextStage(pc)
               /\ UNCHANGED <<raised, result>>
    /\ UNCHANGED <<storeVars, op, docs, chunks, embeddings, dict_list, handle, coll0, ncalls>>

\* search, lines 78-84: encoder.encode may raise; dict_list[0] raises when the
\* list is empty
search_encode ==
    /\ pc = "encode_question" /\ Enter
    /\ \/ /\ raised' = pc /\ Raise("ModelError") /\ UNCHANGED qvec
       \/ IF handle.dict_list = <<>>
          THEN /\ raised' = pc /\ Raise("IndexError") /\ UNCHANGED qvec
          ELSE /\ qvec' = normalize(RawEncode(op.question))
               /\ pc' = NextStage(pc)
               /\ UNCHANGED <<raised, result>>
    /\ UNCHANGED <<storeVars, op, docs, chunks, embeddings, dict_list, handle, coll0, ncalls>>

\* A faulty variant of search_mc_search: mc.search is called with the default
\* limit, not with top_k.
search_mc_search_default_limit ==
    /\ pc = "mc_search" /\ Enter
    /\ \/ /\ raised' = pc /\ Raise("MilvusException")
       \/ /\ \E hits \in Ranked({r \in coll.records : r.id \in visible}, qvec, DEFAULT_TOP_K) :
                result' = [NoResult EXCEPT !.status = "ok", !.hits = hits, !.seen = visible]
          /\ pc' = NextStage(pc)
          /\ UNCHANGED raised
    /\ UNCHANGED <<storeVars, op, localVars, handle, coll0, ncalls>>

\* search, lines 86-98: mc.search sees the visible records
search_mc_search ==
    /\ pc = "mc_search" /\ Enter
    /\ \/ /\ raised' = pc /\ Raise("MilvusException")
       \/ /\ \E hits \in Ranked({r \in coll.records : r.id \in visible}, qvec, op.top_k) :
                result' = [NoResult EXCEPT !.status = "ok", !.hits = hits, !.seen = visible]
          /\ pc' = NextStage(pc)
          /\ UNCHANGED raised
    /\ UNCHANGED <<storeVars, op, localVars, handle, coll0, ncalls>>

\* The store makes an inserted record visible to searches.
Settle ==
    /\ \E id \in Ids(coll.records) \ visible : visible' = visible \cup {id}
    /\ UNCHANGED <<coll, nextId, pc, op, localVars, handle, result, log, raised, coll0, ncalls>>

Ingest == \E p \in Paths : init_rag(p)
Query == \E q \in Questions, k \in TopKs : rag_search(q, k)

Next ==
    \/ Ingest
    \/ load_file
    \/ load_embedding_model
    \/ encode_docs_split
    \/ encode_docs_encode
    \/ encode_docs_zip
    \/ save_create_collection
    \/ save_insert
    \/ Query
    \/ search_encode
    \/ search_mc_search
    \/ Settle

Spec == Init /\ [][Next]_vars

\* The store's settling is the one thing that goes on without the caller.
FairSpec == Spec /\ WF_vars(Settle)

\* ------------------------------------------- the splitter on its own
\* Page texts for the splitter: up to MaxBlocks blocks, each a word of one
\* letter followed by a separator.  The words are shorter than a chunk, one
\* character short of a chunk, or longer than a chunk.
WordLens == {3, CHUNK_SIZE - 1, CHUNK_SIZE + 16}
BlockSeps == {<<>>, <<" ">>, <<".", " ">>, <<NL, NL>>}
Letters == <<"a", "b", "c", "d">>
Letter(k) == Letters[((k - 1) % Len(Letters)) + 1]

RECURSIVE BlockTexts(_)
BlockTexts(n) ==
    IF n = 0 THEN {<<>>}
    ELSE {t \o Rep(Letter(n), w) \o sp : t \in BlockTexts(n - 1), w \in WordLens, sp \in BlockSeps}

ChunkInputs == UNION {BlockTexts(n) : n \in 0..MaxBlocks}

\* init_rag has loaded a one-page file with the text t and the model, and is
\* about to split.
InitChunk ==
    /\ coll = NoCollection /\ visible = {} /\ nextId = 0
    /\ pc = "split_documents"
    /\ op = [NoOp EXCEPT !.kind = "init_rag", !.pdf_path = "page.pdf"]
    /\ \E t \in ChunkInputs :
          docs = << [page_content |-> t, source |-> "page.pdf", page |-> 0] >>
    /\ chunks = <<>> /\ embeddings = <<>> /\ dict_list = <<>> /\ qvec = <<>>
    /\ handle = NoHandle /\ result = NoResult
    /\ log = <<"load_file", "load_embedding_model">> /\ raised = ""
    /\ coll0 = NoCollection /\ ncalls = 1

SpecChunk == InitChunk /\ [][encode_docs_split]_vars

\* ------------------------------------------------------------ claims
Last(q) == q[Len(q)]
Entered(stage) == \E i \in 1..Len(log) : log[i] = stage
NoRepeat(q) == \A i, j \in 1..Len(q) : q[i] = q[j] => i = j
IsPrefix(q, t) == Len(q) <= Len(t) /\ \A i \in 1..Len(q) : q[i] = t[i]
IngestOrder ==
    << "load_file", "load_embedding_model", "split_documents", "encode", "zip",
       "create_collection", "insert" >>

\* The records of a collection in the order of their identifiers, without them.
RECURSIVE StoredList(_)
StoredList(rs) ==
    IF rs = {} THEN <<>>
    ELSE LET r == CHOOSE x \in rs : \A y \in rs : x.id <= y.id
         IN << [chunk |-> r.chunk, source |-> r.source, page |-> r.page,
                vector |-> r.vector] >> \o StoredList(rs \ {r})

IngestEnded == op.kind = "init_rag" /\ pc = "idle"
QueryAnswered == op.kind = "rag_search" /\ pc = "idle" /\ result.status = "ok"
Settled == Ids(coll.records) \subseteq visible

\* C1: init_rag with a path that is no file ends in FileNotFoundError naming
\* the path, having entered no stage but load_file, and the collection is what
\* it was when the call began.
C1_FileNotFound ==
    (IngestEnded /\ ~(op.pdf_path \in ExistingPaths)) =>
        /\ result.status = "error"
        /\ result.type = "FileNotFoundError"
        /\ result.path = op.pdf_path
        /\ log = <<"load_file">>
        /\ coll = coll0
C1_Witness ==
    /\ IngestEnded /\ ~(op.pdf_path \in ExistingPaths)
    /\ result.type = "FileNotFoundError"
    /\ coll.records # {} /\ coll = coll0

\* C2 as claimed: between calls the collection holds exactly the records of the
\* most recent completed ingest (whose dict_list init_rag returned).
C2_MostRecentCompleted ==
    (pc = "idle" /\ handle.valid) => StoredList(coll.records) = handle.dict_list

\* C2 amended: the collection holds exactly the records of the most recent
\* ingest that got as far as create_collection: an ingest leaves the collection
\* as it found it until create_collection, empty from create_collection until
\* insert has completed (and for good when insert raises), and holding exactly
\* its own records once it has completed; a query leaves it alone.
C2_Overwrite ==
    /\ op.kind = "init_rag" =>
          /\ (~Entered("create_collection") \/ raised = "create_collection") => coll = coll0
          /\ (pc = "insert" \/ raised = "insert") => (coll.exists /\ coll.records = {})
          /\ (pc = "idle" /\ result.status = "ok") =>
                /\ StoredList(coll.records) = dict_list
                /\ handle.dict_list = dict_list
    /\ op.kind = "rag_search" => coll = coll0
C2_Witness ==
    /\ IngestEnded /\ result.status = "ok"
    /\ coll0.records # {} /\ coll.records # {}
    /\ Ids(coll0.records) \cap Ids(coll.records) = {}

\* C3: a stage that raises ends the call with that error: the call is over,
\* the caller has the error of that stage, the failed stage is the last one
\* the call entered, no stage was entered twice, and a call that returned
\* normally had no stage raise.
C3_Abort ==
    /\ NoRepeat(log)
    /\ raised # "" =>
          /\ pc = "idle"
          /\ result.status = "error"
          /\ result.stage = raised
          /\ Last(log) = raised
    /\ result.status = "ok" => raised = ""
C3_Witness ==
    /\ raised = "insert" /\ pc = "idle" /\ result.type = "MilvusException"
    /\ coll0.records # {}

\* C4 as claimed: a query with top_k larger than the number N of records in the
\* collection returns exactly N results.
C4_ExactlyN ==
    (QueryAnswered /\ op.top_k > Cardinality(coll.records)) =>
        Len(result.hits) = Cardinality(coll.records)

SeenRecords == {r \in coll.records : r.id \in result.seen}
\* C4 amended: a query returns min(top_k, V) results, V being the number of
\* records visible to the search, V <= N; so at most top_k, and exactly N when
\* top_k > N and all N records are visible.  The results are distinct visible
\* records, best first, and no visible record left out is nearer than one
\* returned.
C4_TopK ==
    QueryAnswered =>
        LET hits == result.hits
            n == Cardinality(coll.records)
            v == Cardinality(SeenRecords)
        IN /\ Len(hits) <= op.top_k
           /\ v <= n
           /\ Len(hits) = (IF op.top_k <= v THEN op.top_k ELSE v)
           /\ (op.top_k > n /\ result.seen = Ids(coll.records)) => Len(hits) = n
           /\ \A i, j \in 1..Len(hits) :
                 /\ i < j => FracGE(hits[i].distance, hits[j].distance)
                 /\ hits[i].id = hits[j].id => i = j
           /\ \A i \in 1..Len(hits) : \E r \in SeenRecords : hits[i] = Hit(r, qvec)
           /\ \A r \in SeenRecords :
                 \/ \E i \in 1..Len(hits) : hits[i].id = r.id
                 \/ \A i \in 1..Len(hits) :
                       FracGE(hits[i].distance, Similarity(qvec, r.vector))
C4_Witness ==
    /\ QueryAnswered
    /\ Cardinality(coll.records) >= 2
    /\ op.top_k > Cardinality(coll.records)
    /\ result.seen = Ids(coll.records)
    /\ Len(result.hits) = Cardinality(coll.records)

\* The search of the round trip: every record was visible to it, top_k is the
\* number of records, and the question is the text of a stored chunk.
RoundTrip ==
    /\ QueryAnswered
    /\ result.seen = Ids(coll.records)
    /\ op.top_k = Cardinality(coll.records)
    /\ \E r \in coll.records : r.chunk = op.question

\* C5 as claimed: the search of the round trip returns the record whose text
\* was asked as the top result.
C5_ExactRecordOnTop ==
    RoundTrip => \A r \in coll.records : r.chunk = op.question => result.hits[1].id = r.id

\* C5 amended: every inserted record becomes visible (or is dropped with its
\* collection) and stays visible as long as it is in the collection; and the
\* search of the round trip returns as its top result a record with the
\* vector of the question, at similarity 1: the record whose text was asked
\* when no other record has its vector.
C5_TopHasQueryVector ==
    RoundTrip =>
        /\ result.hits[1].distance = <<1, 1>>
        /\ \E r \in coll.records : r.id = result.hits[1].id /\ r.vector = qvec
        /\ \A r \in coll.records :
              (r.chunk = op.question /\ \A x \in coll.records : x.vector = r.vector => x = r)
                 => result.hits[1].id = r.id
C5_StaysVisible ==
    \A r \in coll.records : (r.id \in visible /\ r \in coll'.records) => r.id \in visible'
C5_RoundTrip ==
    /\ []C5_TopHasQueryVector
    /\ [][C5_StaysVisible]_vars
    /\ (~Settled) ~> Settled
C5_Witness ==
    /\ RoundTrip
    /\ Cardinality(coll.records) >= 2
    /\ \E r \in coll.records : r.chunk = op.question /\ result.hits[1].id = r.id
    /\ result.hits[1].distance = <<1, 1>>

\* C6: identifiers are pairwise distinct; a step adds records only in insert,
\* removes records only in create_collection, never changes a record, and the
\* steps of a query leave the collection as it is.
IdsDistinct == \A r, x \in coll.records : r.id = x.id => r = x
C6_Step ==
    /\ (coll'.records \ coll.records) # {} => pc = "insert"
    /\ (coll.records \ coll'.records) # {} => pc = "create_collection"
    /\ \A r \in coll.records, x \in coll'.records : r.id = x.id => r = x
    /\ (op.kind = "rag_search" /\ op'.kind = "rag_search") => coll' = coll
C6_Frame == []IdsDistinct /\ [][C6_Step]_vars
C6_Witness ==
    /\ QueryAnswered /\ Len(result.hits) >= 2 /\ coll = coll0
    /\ Cardinality(coll.records) >= 3

\* C7: an ingest whose splitting produced no chunk ends in EmptyInputError.
C7_EmptyInputError ==
    (IngestEnded /\ Entered("encode") /\ chunks = <<>>) =>
        (result.status = "error" /\ result.type = "EmptyInputError")

\* C8: every chunk of the splitter is at most CHUNK_SIZE long, or contains no
\* occurrence of any of the separators.
C8_ChunkBound ==
    \A i \in 1..Len(chunks) :
        \/ Len(chunks[i].page_content) <= CHUNK_SIZE
        \/ \A k \in 1..Len(separators) : ~Occurs(chunks[i].page_content, separators[k])
\* a page longer than a chunk, cut into several chunks, one of them a raw cut
\* of exactly CHUNK_SIZE characters with no separator but the empty one in it
C8_Witness ==
    /\ Entered("split_documents")
    /\ Len(docs[1].page_content) > CHUNK_SIZE
    /\ Len(chunks) >= 2
    /\ \E i \in 1..Len(chunks) :
          /\ Len(chunks[i].page_content) = CHUNK_SIZE
          /\ \A k \in 1..Len(separators) :
                separators[k] # <<>> => ~Occurs(chunks[i].page_content, separators[k])

\* C9: the stages of an ingest are entered in the order load_file,
\* load_embedding_model, split_documents, encode, zip, create_collection,
\* insert, the stage the call is at being the one after those entered; the
\* collection changes only once create_collection is entered, by when every
\* chunk has its embedding and its dictionary; and records are there only once
\* insert is entered.
C9_StageOrder ==
    op.kind = "init_rag" =>
        /\ IsPrefix(log, IngestOrder)
        /\ pc # "idle" => (Len(log) < Len(IngestOrder) /\ pc = IngestOrder[Len(log) + 1])
        /\ coll # coll0 =>
              /\ Entered("create_collection") /\ Entered("zip") /\ Entered("encode")
              /\ Len(embeddings) = Len(chunks)
              /\ Len(dict_list) = Len(chunks)
        /\ coll.records # {} /\ coll # coll0 => Entered("insert")
C9_Witness ==
    /\ IngestEnded /\ result.status = "ok" /\ log = IngestOrder
    /\ coll0.records # {} /\ Len(dict_list) >= 3

\* C10: once encode_docs has built dict_list, its i-th dictionary carries the
\* text, source and page of the i-th chunk and the normalized embedding of that
\* chunk's text, there are as many dictionaries as chunks, and they follow the
\* pages in order.
C10_IndexAligned ==
    (op.kind = "init_rag" /\ Entered("zip")) =>
        /\ Len(dict_list) = Len(chunks)
        /\ \A i \in 1..Len(dict_list) :
              /\ dict_list[i].chunk = chunks[i].page_content
              /\ dict_list[i].source = chunks[i].source
              /\ dict_list[i].page = chunks[i].page
              /\ dict_list[i].vector = normalize(RawEncode(chunks[i].page_content))
        /\ \A i, j \in 1..Len(dict_list) : i < j => dict_list[i].page <= dict_list[j].page
C10_Witness ==
    /\ op.kind = "init_rag" /\ Entered("zip")
    /\ Len(dict_list) >= 3
    /\ dict_list[1].page # dict_list[Len(dict_list)].page
    /\ dict_list[1].vector # dict_list[2].vector

====
